---- MODULE Spec2Model ----
(***************************************************************************)
(* A model of WAVs-Nomalizer (src/main.py): discovery of audio files, the  *)
(* per-file task, the process-pool batch engine process_audio_files, the   *)
(* command-line entry point main and the PyQt window that runs a batch on  *)
(* a background thread.                                                    *)
(*                                                                         *)
(* Text is modelled as a sequence of characters, each character a one-     *)
(* element TLA+ string.  The three katakana characters of the word the     *)
(* code searches results for (line 133, "e-ra-a") are written "<e>",       *)
(* "<ra>" and "<->".  A run of message characters that holds none of these *)
(* three is written as one bracketed token.                                *)
(***************************************************************************)
EXTENDS Integers, Sequences, FiniteSets, TLC

(***************************************************************************)
(* Bounds of the model.                                                    *)
(***************************************************************************)
MaxFiles == 3

MaxWorkers == 2

(***************************************************************************)
(* Text helpers: the str operations the code uses.                         *)
(***************************************************************************)
\* str.__contains__ : s occurs in t as a contiguous run
IsSubstr(s, t) ==
  \E i \in 0..(Len(t) - Len(s)) : SubSeq(t, i + 1, i + Len(s)) = s

\* str.lower on the letters that occur in the modelled names
LowerChar(c) ==
  CASE c = "W" -> "w"
    [] c = "A" -> "a"
    [] c = "V" -> "v"
    [] c = "M" -> "m"
    [] c = "P" -> "p"
    [] OTHER -> c

Lower(s) == [i \in 1..Len(s) |-> LowerChar(s[i])]

\* str.endswith with one suffix
EndsWith(s, suf) ==
  /\ Len(s) >= Len(suf)
  /\ SubSeq(s, Len(s) - Len(suf) + 1, Len(s)) = suf

\* the largest index of character c in s, 0 when absent (str.rfind + 1)
RFind(s, c) ==
  LET hits == {i \in 1..Len(s) : s[i] = c}
  IN IF hits = {} THEN 0 ELSE CHOOSE i \in hits : \A j \in hits : j <= i

\* os.path.join(a, b) for a relative b
PathJoin(a, b) ==
  IF a = <<>> THEN b
  ELSE IF a[Len(a)] = "/" THEN a \o b
  ELSE a \o <<"/">> \o b

\* os.path.basename
Basename(p) == SubSeq(p, RFind(p, "/") + 1, Len(p))

\* os.path.splitext of a base name: split at the last dot unless only dots
\* come before it
Splitext(b) ==
  LET dot == RFind(b, ".")
  IN IF dot > 0 /\ \E j \in 1..(dot - 1) : b[j] # "."
     THEN <<SubSeq(b, 1, dot - 1), SubSeq(b, dot, Len(b))>>
     ELSE <<b, <<>> >>

RECURSIVE JoinLines(_)
\* "\n".join(xs)
JoinLines(xs) ==
  IF xs = <<>> THEN <<>>
  ELSE IF Len(xs) = 1 THEN xs[1]
  ELSE xs[1] \o <<"\n">> \o JoinLines(Tail(xs))

(***************************************************************************)
(* Python values that cross function boundaries.                           *)
(***************************************************************************)
PyNone == [t |-> "none", s |-> <<>>]

PyStr(x) == [t |-> "str", s |-> x]

\* truthiness of an optional string
Truthy(v) == v.t = "str" /\ v.s # <<>>

(***************************************************************************)
(* Program constants.                                                      *)
(***************************************************************************)
\* the word searched for in a task's result (line 133)
Marker == <<"<e>", "<ra>", "<->">>

EXT_WAV == <<".", "w", "a", "v">>

EXT_MP3 == <<".", "m", "p", "3">>

supported_formats == {EXT_WAV, EXT_MP3}

SUFFIX == <<"-", "N", "o", "m", "a", "l", "i", "z", "e", "d">>

(***************************************************************************)
(* The inputs the model draws from.                                        *)
(***************************************************************************)
NAME_A_WAV == <<"a">> \o EXT_WAV

NAME_A_MP3 == <<"a">> \o EXT_MP3

NAME_B_UPPER == <<"b", ".", "W", "A", "V">>

NAME_MARKER == Marker \o EXT_WAV

NAME_TXT == <<"n", ".", "t", "x", "t">>

\* a file whose whole name is the suffix discovery looks for
NAME_HIDDEN == EXT_WAV

\* directory entries in listing order
NameOrder == <<NAME_A_WAV, NAME_A_MP3, NAME_MARKER, NAME_B_UPPER, NAME_HIDDEN,
               NAME_TXT>>

\* the names a direct call draws its files from
NameUniverse == {NAME_A_WAV, NAME_A_MP3, NAME_MARKER, NAME_B_UPPER, NAME_TXT}

\* the names the directory of a command-line run may hold
CliNames == {NAME_A_WAV, NAME_A_MP3, NAME_B_UPPER, NAME_HIDDEN, NAME_TXT}

DIR_PLAIN == <<"d">>

DIR_MARKER == <<"<e>", "<ra>", "<->">>

Formats == {"wav", "mp3"}

\* the entries of S in listing order
ListingSeq(S) == SelectSeq(NameOrder, LAMBDA n : n \in S)

(***************************************************************************)
(* get_audio_files (lines 56-70).  `isdir` is os.path.isdir(directory),    *)
(* `entries` is os.listdir(directory) as a sequence.                       *)
(***************************************************************************)
NotADirectoryMsg(directory) == <<"[error: not a directory: ]">> \o directory

NoFilesMsg(directory) == <<"[warning: no audio files in: ]">> \o directory

get_audio_files(directory, isdir, entries) ==
  LET keep(f) == \E suf \in supported_formats : EndsWith(Lower(f), suf)
      files == [i \in 1..Len(SelectSeq(entries, keep)) |->
                  PathJoin(directory, SelectSeq(entries, keep)[i])]
  IN IF ~isdir
     THEN [files |-> <<>>, ok |-> FALSE, err |-> PyStr(NotADirectoryMsg(directory))]
     ELSE IF files = <<>>
     THEN [files |-> <<>>, ok |-> FALSE, err |-> PyStr(NoFilesMsg(directory))]
     ELSE [files |-> files, ok |-> TRUE, err |-> PyNone]

(***************************************************************************)
(* process_single_file (lines 76-112).  `raises` is the set of source      *)
(* paths for which load, effects or save raise an Exception.               *)
(***************************************************************************)
\* an output name that ignores the requested format
OutputPathAlwaysWav(file_path, out_dir, fmt) ==
  PathJoin(out_dir, Splitext(Basename(file_path))[1] \o EXT_WAV)

\* lines 100-108: output_path
OutputPath(file_path, out_dir, fmt) ==
  LET file_name == Splitext(Basename(file_path))[1]
  IN IF fmt = "wav"
     THEN PathJoin(out_dir, file_name \o EXT_WAV)
     ELSE PathJoin(out_dir, file_name \o EXT_MP3)

ErrorMessage(file_path) ==
  <<"[file shori chuu ni]">> \o Marker \o <<"[ga hassei shimashita: ]">>
    \o file_path \o <<"\n">> \o <<"[e]">>

\* os.makedirs without exist_ok: an existing directory is an error
MakedirsNoExistOk(state) ==
  IF state = "absent" THEN [raised |-> FALSE, state |-> "dir"]
  ELSE [raised |-> TRUE, state |-> state]

\* os.makedirs(output_dir, exist_ok=True) (line 119) on the state of the path
Makedirs(state) ==
  IF state = "absent" THEN [raised |-> FALSE, state |-> "dir"]
  ELSE [raised |-> FALSE, state |-> state]

\* the test that classifies a result as a failure (line 133)
IsErrorResult(result) == IsSubstr(Marker, result.s)

\* the value returned (lines 145-149)
BatchOutcome(errs) == IF errs # <<>> THEN PyStr(JoinLines(errs)) ELSE PyNone

(***************************************************************************)
(* State.                                                                  *)
(***************************************************************************)
VARIABLES
  host,              \* who called process_audio_files: "call", "cli" or "gui"
  file_list,         \* argument: sequence of source paths
  output_dir,        \* argument
  output_format,     \* argument: "wav" or "mp3"
  max_workers,       \* argument
  progress_callback, \* argument: "None" or "callable"
  corrupt,           \* environment: source paths whose processing raises
  out_state,         \* file system: the output directory, "absent" or "dir"
  written,           \* file system: <<output path, task>> for every file saved
  pc,                \* position of process_audio_files
  submitted,         \* the paths handed to executor.submit, in order
  fut,               \* per task: "none", "pending", "running", "finished"
  outcome,           \* per task: what its future holds
  fin0,              \* as_completed: futures already finished when it was called
  waiter,            \* as_completed: futures finished since, in completion order
  collected,         \* tasks in the order the loop received them
  errors,            \* line 120
  processed_count,   \* line 130
  progress_calls,    \* arguments of every progress_callback call, in order
  progress_bar,      \* the tqdm bar of lines 123-125
  mk,                \* what os.makedirs found at line 119: "none" before the call
  ret,               \* what process_audio_files returned or raised
  env,               \* environment of main: the probe's answer, argv, the input directory
  cli,               \* main: position, exit code, calls made so far
  gui,               \* the window: fields, widgets, thread, position of its handlers
  events,            \* signals queued for the thread that owns the window
  pool               \* the worker processes: how they start, the DEVICE each
                     \* holds, the calls that never end, the order of completion

argVars == <<file_list, output_dir, output_format, max_workers,
             progress_callback>>

batchVars == <<argVars, corrupt, out_state, written, pc, submitted, fut,
               outcome, fin0, waiter, collected, errors, processed_count,
               progress_calls, progress_bar, mk, ret>>

hostVars == <<host, env, cli, gui>>

vars == <<batchVars, hostVars, events, pool>>

Tasks == 1..Len(file_list)

NoDuplicates(q) == \A a, b \in 1..Len(q) : a # b => q[a] # q[b]

Range(q) == {q[k] : k \in 1..Len(q)}

Unset == [kind |-> "unset", v |-> PyNone]

NoBar == [open |-> FALSE, total |-> 0, n |-> 0]

NotReturned == [kind |-> "running", v |-> PyNone]

Running == {i \in Tasks : fut[i] = "running"}

AllFinished == \A i \in Tasks : fut[i] = "finished"

StartMethods == {"fork", "spawn"}

\* line 73: the module-level statement that sets DEVICE, run by every
\* process that imports the module
ResolveDevice(cuda) == IF cuda THEN "cuda" ELSE "cpu"

\* the pool before the first submit of a call of process_audio_files: no
\* worker process yet, nothing completed
NewPool(method, cuda, hung) ==
  [start_method |-> method, cuda |-> cuda, DEVICE |-> ResolveDevice(cuda),
   hung |-> hung, worker_imports |-> 0, idle |-> 0, seen |-> {},
   completion |-> <<>>, snap |-> {}]

\* workers that compute on the processor whatever the probe answers
WorkerDeviceCpuOnly == "cpu"

\* line 84 reads the global DEVICE of the process that runs the task: a
\* forked worker inherits the value of the main process, a spawned worker
\* imported the module itself and ran line 73 again
WorkerDevice ==
  IF pool.start_method = "spawn" THEN ResolveDevice(pool.cuda)
  ELSE pool.DEVICE

\* ProcessPoolExecutor.submit where workers are spawned: a new worker
\* process, which imports the module, unless a worker is idle or
\* max_workers processes exist; forked workers import nothing
AdjustProcessCount(pl, workers) ==
  IF pl.start_method # "spawn" THEN pl
  ELSE IF pl.idle > 0 THEN [pl EXCEPT !.idle = pl.idle - 1]
  ELSE IF pl.worker_imports < workers
       THEN [pl EXCEPT !.worker_imports = pl.worker_imports + 1]
  ELSE pl

\* process_single_file without its except clause: the exception escapes
process_single_file_no_except(file_path, out_dir, fmt, raises) ==
  IF file_path \in raises
  THEN [kind |-> "exception", v |-> PyNone, wrote |-> FALSE, path |-> <<>>]
  ELSE [kind |-> "value", v |-> PyStr(OutputPath(file_path, out_dir, fmt)),
        wrote |-> TRUE, path |-> OutputPath(file_path, out_dir, fmt)]

\* process_single_file going through a scratch file all workers share: it
\* fails when another task is running
process_single_file_shared(file_path, out_dir, fmt, raises) ==
  IF file_path \in raises \/ Cardinality(Running) > 1
  THEN [kind |-> "value", v |-> PyStr(ErrorMessage(file_path)),
        wrote |-> FALSE, path |-> <<>>]
  ELSE [kind |-> "value", v |-> PyStr(OutputPath(file_path, out_dir, fmt)),
        wrote |-> TRUE, path |-> OutputPath(file_path, out_dir, fmt)]

\* lines 81-112: the output path on success, the message of line 112 when
\* anything in the try block raises
process_single_file(file_path, out_dir, fmt, raises) ==
  IF file_path \in raises
  THEN [kind |-> "value", v |-> PyStr(ErrorMessage(file_path)),
        wrote |-> FALSE, path |-> <<>>]
  ELSE [kind |-> "value", v |-> PyStr(OutputPath(file_path, out_dir, fmt)),
        wrote |-> TRUE, path |-> OutputPath(file_path, out_dir, fmt)]

\* the signal a progress.emit(value, max_value) queues
ProgressEvent(args) == [sig |-> "progress", value |-> args[1],
                        max_value |-> args[2], error |-> PyNone]

(***************************************************************************)
(* process_audio_files (lines 114-149).                                    *)
(***************************************************************************)
\* the state in which no call of process_audio_files is under way
BatchIdle ==
  /\ file_list = <<>>
  /\ output_dir = <<>>
  /\ output_format = "wav"
  /\ max_workers = 1
  /\ progress_callback = "None"
  /\ pc = "idle"
  /\ submitted = <<>>
  /\ fut = <<>>
  /\ outcome = <<>>
  /\ fin0 = {}
  /\ waiter = <<>>
  /\ collected = <<>>
  /\ errors = <<>>
  /\ processed_count = 0
  /\ progress_calls = <<>>
  /\ progress_bar = NoBar
  /\ mk = "none"
  /\ ret = NotReturned

\* the call process_audio_files(files, dir, fmt, workers, cb) begins
EnterBatch(files, dir, fmt, workers, cb) ==
  /\ file_list' = files
  /\ output_dir' = dir
  /\ output_format' = fmt
  /\ max_workers' = workers
  /\ progress_callback' = cb
  /\ pc' = "makedirs"
  /\ submitted' = <<>>
  /\ fut' = [i \in 1..Len(files) |-> "none"]
  /\ outcome' = [i \in 1..Len(files) |-> Unset]
  /\ fin0' = {}
  /\ waiter' = <<>>
  /\ collected' = <<>>
  /\ errors' = <<>>
  /\ processed_count' = 0
  /\ progress_calls' = <<>>
  /\ progress_bar' = NoBar
  /\ mk' = "none"
  /\ ret' = NotReturned
  /\ pool' = NewPool(pool.start_method, pool.cuda, pool.hung)

\* lines 119-125: create the output directory, the error list, the bar
MakedirsStep ==
  /\ pc = "makedirs"
  /\ mk' = out_state
  /\ LET r == Makedirs(out_state)
     IN IF r.raised
        THEN /\ pc' = "raised"
             /\ ret' = [kind |-> "raised", v |-> PyNone]
             /\ UNCHANGED <<out_state, errors, progress_bar>>
        ELSE /\ pc' = "submit"
             /\ out_state' = r.state
             /\ errors' = <<>>
             /\ progress_bar' = IF progress_callback = "None"
                                THEN [open |-> TRUE, total |-> Len(file_list), n |-> 0]
                                ELSE NoBar
             /\ ret' = ret
  /\ UNCHANGED <<hostVars, events, argVars, pool>>
  /\ UNCHANGED <<corrupt, written, submitted, fut, outcome, fin0, waiter,
                 collected, processed_count, progress_calls>>

\* line 128: executor.submit for the next path of file_list
SubmitOne ==
  /\ pc = "submit"
  /\ Len(submitted) < Len(file_list)
  /\ LET i == Len(submitted) + 1
     IN /\ submitted' = Append(submitted, file_list[i])
        /\ fut' = [fut EXCEPT ![i] = "pending"]
  /\ pool' = AdjustProcessCount(pool, max_workers)
  /\ UNCHANGED <<hostVars, events, argVars>>
  /\ UNCHANGED <<corrupt, out_state, written, pc, outcome, fin0, waiter,
                 collected, errors, processed_count, progress_calls,
                 progress_bar, mk, ret>>

\* a pool that starts a process for every queued call
TaskStartUnbounded ==
  /\ pc \in {"submit", "loop", "raising"}
  /\ \E i \in Tasks :
       /\ fut[i] = "pending"
       /\ \A j \in Tasks : j < i => fut[j] # "pending"
       /\ fut' = [fut EXCEPT ![i] = "running"]
  /\ UNCHANGED <<hostVars, events, argVars, pool>>
  /\ UNCHANGED <<corrupt, out_state, written, pc, submitted, outcome, fin0,
                 waiter, collected, errors, processed_count, progress_calls,
                 progress_bar, mk, ret>>

\* a pool worker takes the oldest queued call; at most max_workers run
TaskStart ==
  /\ pc \in {"submit", "loop", "raising"}
  /\ Cardinality(Running) < max_workers
  /\ \E i \in Tasks :
       /\ fut[i] = "pending"
       /\ \A j \in Tasks : j < i => fut[j] # "pending"
       /\ fut' = [fut EXCEPT ![i] = "running"]
  /\ UNCHANGED <<hostVars, events, argVars, pool>>
  /\ UNCHANGED <<corrupt, out_state, written, pc, submitted, outcome, fin0,
                 waiter, collected, errors, processed_count, progress_calls,
                 progress_bar, mk, ret>>

\* a pool that gives up on a call that does not end and resolves its
\* future with a failure
TaskFinishWithTimeout ==
  /\ \E i \in Tasks :
       /\ fut[i] = "running"
       /\ LET r == process_single_file(file_list[i], output_dir, output_format,
                                       corrupt \cup pool.hung)
          IN /\ fut' = [fut EXCEPT ![i] = "finished"]
             /\ outcome' = [outcome EXCEPT ![i] = [kind |-> r.kind, v |-> r.v]]
             /\ written' = IF r.wrote THEN written \cup {<<r.path, i>>}
                           ELSE written
             /\ waiter' = IF pc = "loop" THEN Append(waiter, i) ELSE waiter
             /\ pool' = [pool EXCEPT
                          !.seen = IF r.wrote THEN pool.seen \cup {WorkerDevice}
                                   ELSE pool.seen,
                          !.completion = Append(pool.completion, i),
                          !.idle = IF pool.start_method = "spawn"
                                   THEN pool.idle + 1 ELSE pool.idle]
  /\ UNCHANGED <<hostVars, events, argVars>>
  /\ UNCHANGED <<corrupt, out_state, pc, submitted, fin0, collected, errors,
                 processed_count, progress_calls, progress_bar, mk, ret>>

\* a worker runs process_single_file to its end and the future is resolved;
\* a call that hangs (no timeout anywhere in lines 76-112) never gets here
TaskFinish ==
  /\ \E i \in Tasks :
       /\ fut[i] = "running"
       /\ file_list[i] \notin pool.hung
       /\ LET r == process_single_file(file_list[i], output_dir,
                                       output_format, corrupt)
          IN /\ fut' = [fut EXCEPT ![i] = "finished"]
             /\ outcome' = [outcome EXCEPT ![i] = [kind |-> r.kind, v |-> r.v]]
             /\ written' = IF r.wrote THEN written \cup {<<r.path, i>>}
                           ELSE written
             /\ waiter' = IF pc = "loop" THEN Append(waiter, i) ELSE waiter
             /\ pool' = [pool EXCEPT
                          !.seen = IF r.wrote THEN pool.seen \cup {WorkerDevice}
                                   ELSE pool.seen,
                          !.completion = Append(pool.completion, i),
                          !.idle = IF pool.start_method = "spawn"
                                   THEN pool.idle + 1 ELSE pool.idle]
  /\ UNCHANGED <<hostVars, events, argVars>>
  /\ UNCHANGED <<corrupt, out_state, pc, submitted, fin0, collected, errors,
                 processed_count, progress_calls, progress_bar, mk, ret>>

\* a loop that starts collecting once the first path is submitted
AsCompletedEarly ==
  /\ pc = "submit"
  /\ Len(submitted) >= 1
  /\ fin0' = {i \in Tasks : fut[i] = "finished"}
  /\ waiter' = <<>>
  /\ processed_count' = 0
  /\ pc' = "loop"
  /\ pool' = [pool EXCEPT !.snap = {i \in Tasks : fut[i] = "finished"}]
  /\ UNCHANGED <<hostVars, events, argVars>>
  /\ UNCHANGED <<corrupt, out_state, written, submitted, fut, outcome,
                 collected, errors, progress_calls, progress_bar, mk, ret>>

\* lines 130-131: every path is submitted; as_completed takes the futures
\* that are already finished
AsCompleted ==
  /\ pc = "submit"
  /\ Len(submitted) = Len(file_list)
  /\ fin0' = {i \in Tasks : fut[i] = "finished"}
  /\ waiter' = <<>>
  /\ processed_count' = 0
  /\ pc' = "loop"
  /\ pool' = [pool EXCEPT !.snap = {i \in Tasks : fut[i] = "finished"}]
  /\ UNCHANGED <<hostVars, events, argVars>>
  /\ UNCHANGED <<corrupt, out_state, written, submitted, fut, outcome,
                 collected, errors, progress_calls, progress_bar, mk, ret>>

\* the future as_completed yields next: any of the first batch, then the
\* others in completion order
NextYield ==
  IF fin0 # {} THEN fin0
  ELSE IF waiter # <<>> THEN {Head(waiter)}
  ELSE {}

\* the callback called with the count before line 136 incremented it
CallbackArgsBeforeIncrement == <<processed_count, Len(file_list)>>

\* lines 136-138: the arguments of progress_callback
CallbackArgs == <<processed_count + 1, Len(file_list)>>

\* a loop that is left at the first failure result
CollectBodyFailFast(i) ==
  LET result == outcome[i]
  IN /\ fin0' = fin0 \ {i}
     /\ waiter' = IF fin0 # {} THEN waiter ELSE Tail(waiter)
     /\ pc' = IF IsErrorResult(result.v) THEN "shutdown" ELSE pc
     /\ collected' = Append(collected, i)
     /\ errors' = IF IsErrorResult(result.v)
                  THEN Append(errors, result.v.s) ELSE errors
     /\ processed_count' = processed_count + 1
     /\ UNCHANGED <<progress_calls, events, progress_bar>>

\* lines 132-140: one iteration of the collection loop
CollectBody(i) ==
  LET result == outcome[i]
  IN /\ fin0' = fin0 \ {i}
     /\ waiter' = IF fin0 # {} THEN waiter ELSE Tail(waiter)
     /\ IF result.kind = "exception"
        THEN /\ pc' = "raising"
             /\ UNCHANGED <<collected, errors, processed_count,
                            progress_calls, progress_bar, events>>
        ELSE /\ pc' = pc
             /\ collected' = Append(collected, i)
             /\ errors' = IF IsErrorResult(result.v)
                          THEN Append(errors, result.v.s) ELSE errors
             /\ processed_count' = processed_count + 1
             /\ progress_calls' =
                  IF progress_callback # "None"
                  THEN Append(progress_calls, CallbackArgs)
                  ELSE progress_calls
             /\ events' =
                  IF progress_callback = "emit"
                  THEN Append(events, ProgressEvent(CallbackArgs))
                  ELSE events
             /\ progress_bar' =
                  IF progress_bar.open
                  THEN [progress_bar EXCEPT !.n = progress_bar.n + 1]
                  ELSE progress_bar

CollectNext ==
  /\ pc = "loop"
  /\ \E i \in NextYield : CollectBody(i)
  /\ UNCHANGED <<hostVars, argVars, pool>>
  /\ UNCHANGED <<corrupt, out_state, written, submitted, fut, outcome, mk,
                 ret>>

\* a loop that ends as soon as no finished future is at hand
LoopDoneEarly == fin0 = {} /\ waiter = <<>>

\* line 131: as_completed is exhausted once it has yielded every future
LoopDone == fin0 = {} /\ Len(collected) = Len(file_list)

LoopExit ==
  /\ pc = "loop"
  /\ LoopDone
  /\ pc' = "shutdown"
  /\ UNCHANGED <<hostVars, events, argVars, pool>>
  /\ UNCHANGED <<corrupt, out_state, written, submitted, fut, outcome, fin0,
                 waiter, collected, errors, processed_count, progress_calls,
                 progress_bar, mk, ret>>

\* end of the with block (line 127): executor.shutdown(wait=True), reached
\* from the end of the loop or by an exception that left it
Shutdown ==
  /\ pc \in {"shutdown", "raising"}
  /\ AllFinished
  /\ pc' = IF pc = "raising" THEN "raised" ELSE "finish"
  /\ ret' = IF pc = "raising" THEN [kind |-> "raised", v |-> PyNone] ELSE ret
  /\ UNCHANGED <<hostVars, events, argVars, pool>>
  /\ UNCHANGED <<corrupt, out_state, written, submitted, fut, outcome, fin0,
                 waiter, collected, errors, processed_count, progress_calls,
                 progress_bar, mk>>

\* lines 142-149: close the bar and return
Return ==
  /\ pc = "finish"
  /\ progress_bar' = [progress_bar EXCEPT !.open = FALSE]
  /\ ret' = [kind |-> "returned", v |-> BatchOutcome(errors)]
  /\ pc' = "returned"
  /\ UNCHANGED <<hostVars, events, argVars, pool>>
  /\ UNCHANGED <<corrupt, out_state, written, submitted, fut, outcome, fin0,
                 waiter, collected, errors, processed_count, progress_calls,
                 mk>>

BatchNext ==
  \/ MakedirsStep
  \/ SubmitOne
  \/ TaskStart
  \/ TaskFinish
  \/ AsCompleted
  \/ CollectNext
  \/ LoopExit
  \/ Shutdown
  \/ Return

(***************************************************************************)
(* A direct call of process_audio_files with arguments drawn from the      *)
(* bounded input sets.                                                     *)
(***************************************************************************)
AudioNames == {n \in NameUniverse : get_audio_files(DIR_PLAIN, TRUE, <<n>>).ok}

NoHost == [pc |-> "none"]

Init ==
  /\ host = "call"
  /\ env = NoHost
  /\ cli = NoHost
  /\ gui = NoHost
  /\ events = <<>>
  /\ \E S \in SUBSET AudioNames :
       /\ Cardinality(S) <= MaxFiles
       /\ file_list = [i \in 1..Len(ListingSeq(S)) |->
                         PathJoin(DIR_PLAIN, ListingSeq(S)[i])]
  /\ output_dir = DIR_PLAIN \o SUFFIX
  /\ output_format \in Formats
  /\ max_workers \in 1..MaxWorkers
  /\ progress_callback \in {"None", "callable"}
  /\ corrupt \in SUBSET {file_list[i] : i \in 1..Len(file_list)}
  /\ out_state \in {"absent", "dir"}
  /\ written = {}
  /\ pc = "makedirs"
  /\ submitted = <<>>
  /\ fut = [i \in 1..Len(file_list) |-> "none"]
  /\ outcome = [i \in 1..Len(file_list) |-> Unset]
  /\ fin0 = {}
  /\ waiter = <<>>
  /\ collected = <<>>
  /\ errors = <<>>
  /\ processed_count = 0
  /\ progress_calls = <<>>
  /\ progress_bar = NoBar
  /\ mk = "none"
  /\ ret = NotReturned
  /\ pool = NewPool("fork", FALSE, {})

Next == BatchNext

Spec == Init /\ [][Next]_vars

(***************************************************************************)
(* A direct call of process_audio_files on a machine whose start method,   *)
(* probe answer and never-ending calls are drawn from bounded sets.        *)
(***************************************************************************)
PoolNames == {NAME_A_WAV, NAME_A_MP3, NAME_B_UPPER}

InitPool ==
  /\ host = "call"
  /\ env = NoHost
  /\ cli = NoHost
  /\ gui = NoHost
  /\ events = <<>>
  /\ \E S \in SUBSET PoolNames :
       /\ Cardinality(S) <= MaxFiles
       /\ file_list = [i \in 1..Len(ListingSeq(S)) |->
                         PathJoin(DIR_PLAIN, ListingSeq(S)[i])]
  /\ output_dir = DIR_PLAIN \o SUFFIX
  /\ output_format = "wav"
  /\ max_workers \in 1..MaxWorkers
  /\ progress_callback = "None"
  /\ corrupt = {}
  /\ out_state = "absent"
  /\ written = {}
  /\ pc = "makedirs"
  /\ submitted = <<>>
  /\ fut = [i \in 1..Len(file_list) |-> "none"]
  /\ outcome = [i \in 1..Len(file_list) |-> Unset]
  /\ fin0 = {}
  /\ waiter = <<>>
  /\ collected = <<>>
  /\ errors = <<>>
  /\ processed_count = 0
  /\ progress_calls = <<>>
  /\ progress_bar = NoBar
  /\ mk = "none"
  /\ ret = NotReturned
  /\ \E method \in StartMethods, cuda \in BOOLEAN,
        hung \in SUBSET {file_list[i] : i \in 1..Len(file_list)} :
       pool = NewPool(method, cuda, hung)

NextPool == BatchNext

SpecPool == InitPool /\ [][NextPool]_vars

\* the thread that called process_audio_files and the worker processes all
\* get processor time
PoolFairness == WF_vars(BatchNext)

SpecPoolLive == SpecPool /\ PoolFairness

(***************************************************************************)
(* main (lines 313-373), command-line side.  env holds what main reads:    *)
(* the answer of check_ffmpeg, the parsed arguments, whether the input     *)
(* path is a directory, its entries, and the output directory as the run   *)
(* found it.                                                               *)
(***************************************************************************)
\* sys.exit(1) after the failed probe (line 340)
PROBE_EXIT == 1

\* parser.error (line 344): argparse ends the process with status 2
USAGE_EXIT == 2

\* sys.exit(1) after a discovery error (line 351)
DISCOVERY_EXIT == 1

\* main returns (line 376): the interpreter ends with status 0
SUCCESS_EXIT == 0

\* an exception that leaves main ends the interpreter with status 1
UNCAUGHT_EXIT == 1

\* get_audio_files(args.input_dir) in the environment of this run
Discovery ==
  get_audio_files(env.input_dir.s, env.isdir, ListingSeq(env.listing))

ExitWith(code) == cli' = [cli EXCEPT !.pc = "exited", !.exit = <<code>>]

\* the probe's answer is printed and the run goes on regardless
CheckFfmpegNoExit ==
  /\ cli.pc = "probe"
  /\ cli' = [cli EXCEPT !.pc = "mode", !.probe_calls = cli.probe_calls + 1]
  /\ UNCHANGED <<batchVars, pool, host, env, gui, events>>

\* lines 326-340
CheckFfmpeg ==
  /\ cli.pc = "probe"
  /\ cli' = [cli EXCEPT
               !.pc = IF env.ffmpeg_ok THEN "mode"
                      ELSE IF env.no_gui THEN "exited" ELSE "fatal_box",
               !.exit = IF ~env.ffmpeg_ok /\ env.no_gui THEN <<PROBE_EXIT>>
                        ELSE <<>>,
               !.probe_calls = cli.probe_calls + 1]
  /\ UNCHANGED <<batchVars, pool, host, env, gui, events>>

\* lines 338-340: the message box is closed, then sys.exit(1)
DismissFatalBox ==
  /\ cli.pc = "fatal_box"
  /\ ExitWith(PROBE_EXIT)
  /\ UNCHANGED <<batchVars, pool, host, env, gui, events>>

\* lines 342-346 and 369-373
ModeDispatch ==
  /\ cli.pc = "mode"
  /\ IF env.no_gui
     THEN IF ~Truthy(env.input_dir)
          THEN ExitWith(USAGE_EXIT)
          ELSE cli' = [cli EXCEPT !.pc = "discover"]
     ELSE cli' = [cli EXCEPT !.pc = "gui"]
  /\ UNCHANGED <<batchVars, pool, host, env, gui, events>>

\* a discovery error that is printed and followed by a plain return
DiscoverReturns ==
  /\ cli.pc = "discover"
  /\ IF ~Discovery.ok
     THEN /\ cli' = [cli EXCEPT !.pc = "exited", !.exit = <<SUCCESS_EXIT>>,
                                !.discover_calls = cli.discover_calls + 1]
          /\ UNCHANGED <<batchVars, pool>>
     ELSE /\ cli' = [cli EXCEPT !.pc = "batch",
                                !.discover_calls = cli.discover_calls + 1]
          /\ EnterBatch(Discovery.files, env.input_dir.s \o SUFFIX,
                        env.format, env.workers, "None")
          /\ UNCHANGED <<corrupt, out_state, written>>
  /\ UNCHANGED <<host, env, gui, events>>

\* lines 348-357: discovery, then the call of process_audio_files
Discover ==
  /\ cli.pc = "discover"
  /\ IF ~Discovery.ok
     THEN /\ cli' = [cli EXCEPT !.pc = "exited", !.exit = <<DISCOVERY_EXIT>>,
                                !.discover_calls = cli.discover_calls + 1]
          /\ UNCHANGED <<batchVars, pool>>
     ELSE /\ cli' = [cli EXCEPT !.pc = "batch",
                                !.discover_calls = cli.discover_calls + 1]
          /\ EnterBatch(Discovery.files, env.input_dir.s \o SUFFIX,
                        env.format, env.workers, "None")
          /\ UNCHANGED <<corrupt, out_state, written>>
  /\ UNCHANGED <<host, env, gui, events>>

\* lines 358-368: the outcome is printed and main returns
Report ==
  /\ cli.pc = "batch"
  /\ pc \in {"returned", "raised"}
  /\ ExitWith(IF pc = "raised" THEN UNCAUGHT_EXIT ELSE SUCCESS_EXIT)
  /\ UNCHANGED <<batchVars, pool, host, env, gui, events>>

MainNext ==
  \/ CheckFfmpeg
  \/ DismissFatalBox
  \/ ModeDispatch
  \/ Discover
  \/ Report

InitCli ==
  /\ host = "cli"
  /\ pool = NewPool("fork", FALSE, {})
  /\ gui = NoHost
  /\ events = <<>>
  /\ BatchIdle
  /\ written = {}
  /\ out_state = "absent"
  /\ \E S \in SUBSET CliNames :
       /\ Cardinality(S) <= MaxFiles
       /\ env \in [ffmpeg_ok : BOOLEAN, no_gui : BOOLEAN,
                   input_dir : {PyNone, PyStr(DIR_PLAIN), PyStr(DIR_MARKER)},
                   format : Formats, workers : 1..MaxWorkers,
                   isdir : BOOLEAN, listing : {S},
                   out_before : {out_state}]
  /\ corrupt \in SUBSET (IF env.ffmpeg_ok /\ env.no_gui /\ Truthy(env.input_dir)
                         THEN Range(Discovery.files) ELSE {})
  /\ cli = [pc |-> "probe", exit |-> <<>>, probe_calls |-> 0,
            discover_calls |-> 0]

NextCli == MainNext \/ BatchNext

SpecCli == InitCli /\ [][NextCli]_vars

(***************************************************************************)
(* The window (lines 153-302).  gui.pc is what the thread that owns the    *)
(* window is doing: "idle" in the event loop, "box" inside the modal       *)
(* message box of on_processing_finished.  gui.thread is the QThread of    *)
(* start_processing: "none", "started", "running" (worker.run is           *)
(* executing), "idle" (run has returned).  env.disk is the state of every  *)
(* output directory, env.listing the entries of every input directory.     *)
(***************************************************************************)
\* a str signal carries None as the empty string (finished = pyqtSignal(str),
\* line 156, emitted with None at line 174)
ToSignalStr(v) == IF v.t = "none" THEN PyStr(<<>>) ELSE v

FinishedEvent(error) == [sig |-> "finished", value |-> 0, max_value |-> 0,
                         error |-> ToSignalStr(error)]

NoWorker == [files |-> <<>>, output_dir |-> <<>>, output_format |-> "wav",
             max_workers |-> 1]

\* set_ui_enabled (lines 291-295)
set_ui_enabled(g, enabled) ==
  [g EXCEPT !.select_folder_button = enabled, !.format_combo = enabled,
            !.worker_spinbox = enabled, !.process_button = enabled]

\* reset_ui (lines 297-302)
reset_ui(g) ==
  [set_ui_enabled(g, TRUE) EXCEPT !.process_button = FALSE,
                                  !.thread = "none", !.worker = NoWorker]

\* the directories the folder dialog can return; <<>> is a cancelled dialog
DialogChoices == {<<>>, DIR_PLAIN, DIR_MARKER}

\* select_input_folder (lines 222-234) with the dialog's answer
select_input_folder(g, choice) ==
  LET r == get_audio_files(choice, TRUE, ListingSeq(env.listing[choice]))
  IN IF choice = <<>> THEN [g EXCEPT !.input_dir = choice]
     ELSE IF ~r.ok
     THEN [g EXCEPT !.input_dir = choice, !.process_button = FALSE]
     ELSE [g EXCEPT !.input_dir = choice, !.files_to_process = r.files,
                    !.process_button = TRUE]

SelectInputFolder ==
  /\ gui.pc = "idle"
  /\ gui.select_folder_button
  /\ \E choice \in DialogChoices : gui' = select_input_folder(gui, choice)
  /\ UNCHANGED <<batchVars, pool, host, env, cli, events>>

\* the user picks an output format in the combo box (lines 201-203)
SetFormat ==
  /\ gui.pc = "idle"
  /\ gui.format_combo
  /\ \E f \in Formats : f # gui.format /\ gui' = [gui EXCEPT !.format = f]
  /\ UNCHANGED <<batchVars, pool, host, env, cli, events>>

\* the user changes the worker count in the spin box (lines 205-209)
SetWorkers ==
  /\ gui.pc = "idle"
  /\ gui.worker_spinbox
  /\ \E w \in 1..MaxWorkers :
       w # gui.workers /\ gui' = [gui EXCEPT !.workers = w]
  /\ UNCHANGED <<batchVars, pool, host, env, cli, events>>

\* start_processing without its first statement: the controls stay as
\* they are
StartProcessingKeepsUi ==
  /\ gui.pc = "idle"
  /\ gui.process_button
  /\ gui' = [gui EXCEPT
               !.bar_max = Len(gui.files_to_process),
               !.bar_value = 0,
               !.thread = "started",
               !.worker = [files |-> gui.files_to_process,
                           output_dir |-> gui.input_dir \o SUFFIX,
                           output_format |-> gui.format,
                           max_workers |-> gui.workers]]
  /\ UNCHANGED <<batchVars, pool, host, env, cli, events>>

\* start_processing (lines 236-257)
StartProcessing ==
  /\ gui.pc = "idle"
  /\ gui.process_button
  /\ gui' = [set_ui_enabled(gui, FALSE) EXCEPT
               !.bar_max = Len(gui.files_to_process),
               !.bar_value = 0,
               !.thread = "started",
               !.worker = [files |-> gui.files_to_process,
                           output_dir |-> gui.input_dir \o SUFFIX,
                           output_format |-> gui.format,
                           max_workers |-> gui.workers]]
  /\ UNCHANGED <<batchVars, pool, host, env, cli, events>>

\* the thread starts and its started signal runs worker.run (lines 165-173):
\* process_audio_files is entered on that thread
ThreadStarted ==
  /\ gui.thread = "started"
  /\ gui' = [gui EXCEPT !.thread = "running"]
  /\ EnterBatch(gui.worker.files, gui.worker.output_dir,
                gui.worker.output_format, gui.worker.max_workers, "emit")
  /\ out_state' = env.disk[gui.worker.output_dir]
  /\ written' = {}
  /\ UNCHANGED <<corrupt, host, env, cli, events>>

\* a worker.run that emits finished only when there is an error
WorkerFinishedOnErrorOnly ==
  /\ gui.thread = "running"
  /\ pc \in {"returned", "raised"}
  /\ gui' = [gui EXCEPT !.thread = "idle"]
  /\ events' = IF pc = "returned" /\ Truthy(ret.v)
               THEN Append(events, FinishedEvent(ret.v)) ELSE events
  /\ UNCHANGED <<batchVars, pool, host, env, cli>>

\* line 174: process_audio_files has returned and run emits finished; an
\* exception leaves run without the signal
WorkerFinished ==
  /\ gui.thread = "running"
  /\ pc \in {"returned", "raised"}
  /\ gui' = [gui EXCEPT !.thread = "idle"]
  /\ events' = IF pc = "returned"
               THEN Append(events, FinishedEvent(ret.v)) ELSE events
  /\ UNCHANGED <<batchVars, pool, host, env, cli>>

\* update_progress (lines 274-276), the progress bar
update_progress(g, value, max_value) ==
  [g EXCEPT !.bar_value = value, !.bar_max = max_value]

\* on_processing_finished up to its message box (lines 259-270)
on_processing_finished(g, error) ==
  [g EXCEPT !.pc = "box", !.finished_arg = error,
            !.box = IF Truthy(error) THEN "error" ELSE "info"]

\* the event loop of the window's thread takes the next queued signal
DeliverEvent ==
  /\ gui.pc \in {"idle", "box"}
  /\ events # <<>>
  /\ LET e == Head(events)
     IN IF e.sig = "progress"
        THEN gui' = update_progress(gui, e.value, e.max_value)
        ELSE /\ gui.pc = "idle"
             /\ gui' = on_processing_finished(gui, e.error)
  /\ events' = Tail(events)
  /\ UNCHANGED <<batchVars, pool, host, env, cli>>

\* the message box is closed: on_processing_finished goes on to reset_ui
\* (line 272); the locals of the finished call are gone
DismissBox ==
  /\ gui.pc = "box"
  /\ gui' = [reset_ui(gui) EXCEPT !.pc = "idle", !.box = "none",
                                  !.finished_arg = PyNone]
  /\ env' = [env EXCEPT !.disk[output_dir] = out_state]
  /\ file_list' = <<>>
  /\ output_dir' = <<>>
  /\ output_format' = "wav"
  /\ max_workers' = 1
  /\ progress_callback' = "None"
  /\ pc' = "idle"
  /\ submitted' = <<>>
  /\ fut' = <<>>
  /\ outcome' = <<>>
  /\ fin0' = {}
  /\ waiter' = <<>>
  /\ collected' = <<>>
  /\ errors' = <<>>
  /\ processed_count' = 0
  /\ progress_calls' = <<>>
  /\ progress_bar' = NoBar
  /\ mk' = "none"
  /\ ret' = NotReturned
  /\ pool' = NewPool(pool.start_method, pool.cuda, pool.hung)
  /\ UNCHANGED <<corrupt, out_state, written, host, cli, events>>

GuiNext ==
  \/ SelectInputFolder
  \/ SetFormat
  \/ SetWorkers
  \/ StartProcessing
  \/ ThreadStarted
  \/ WorkerFinished
  \/ DeliverEvent
  \/ DismissBox

\* the window as __init__ leaves it (lines 177-220), after main passed the
\* probe and went to the window
InitGui ==
  /\ host = "gui"
  /\ pool = NewPool("fork", FALSE, {})
  /\ cli = [pc |-> "gui", exit |-> <<>>, probe_calls |-> 1,
            discover_calls |-> 0]
  /\ events = <<>>
  /\ BatchIdle
  /\ written = {}
  /\ out_state = "absent"
  /\ \E S \in SUBSET {NAME_A_WAV, NAME_B_UPPER, NAME_TXT} :
       /\ Cardinality(S) <= MaxFiles
       /\ env = [listing |-> [d \in DialogChoices |->
                                IF d = DIR_PLAIN THEN S ELSE {}],
                 disk |-> [d \in {c \o SUFFIX : c \in DialogChoices} |->
                             "absent"]]
  /\ corrupt \in SUBSET {PathJoin(DIR_PLAIN, n) : n \in env.listing[DIR_PLAIN]
                                                    \ {NAME_TXT}}
  /\ gui = [pc |-> "idle", input_dir |-> <<>>, files_to_process |-> <<>>,
            select_folder_button |-> TRUE, format_combo |-> TRUE,
            worker_spinbox |-> TRUE, process_button |-> FALSE,
            format |-> "wav", workers |-> 1, thread |-> "none",
            worker |-> NoWorker, box |-> "none", finished_arg |-> PyNone,
            bar_value |-> 0, bar_max |-> 0]

NextGui == GuiNext \/ BatchNext

SpecGui == InitGui /\ [][NextGui]_vars

\* the thread of the batch and the pool workers get processor time, and the
\* event loop of the window takes queued signals
GuiFairness ==
  /\ WF_vars(ThreadStarted)
  /\ WF_vars(BatchNext)
  /\ WF_vars(WorkerFinished)
  /\ WF_vars(DeliverEvent)

SpecGuiLive == SpecGui /\ GuiFairness

(***************************************************************************)
(* The three callers of process_audio_files side by side: a direct call,   *)
(* the command line and the window.                                        *)
(***************************************************************************)
InitAll == Init \/ InitCli \/ InitGui

NextAll ==
  \/ BatchNext
  \/ host = "cli" /\ MainNext
  \/ host = "gui" /\ GuiNext

SpecAll == InitAll /\ [][NextAll]_vars

(***************************************************************************)
(* The status line of update_progress (lines 278-289) as a function of the *)
(* two signal arguments and of the seconds elapsed since start_time, in    *)
(* whole seconds.                                                          *)
(***************************************************************************)
\* largest max_value drawn for the status line
MaxTotal == 4

\* largest elapsed time drawn for the status line, in seconds
MaxElapsed == 130

DigitChar(n) == <<"0", "1", "2", "3", "4", "5", "6", "7", "8", "9">>[n + 1]

\* str(n) for a natural number
RECURSIVE Decimal(_)
Decimal(n) ==
  IF n < 10 THEN <<DigitChar(n)>>
  ELSE Decimal(n \div 10) \o <<DigitChar(n % 10)>>

\* the format specification 02d
Pad2(n) == IF n < 10 THEN <<"0">> \o Decimal(n) ELSE Decimal(n)

\* line 278
StatusBase(value, max_value) ==
  <<"[processing... ]", "(">> \o Decimal(value) \o <<"/">>
    \o Decimal(max_value) \o <<")">>

\* the label that introduces the remaining time (line 287)
RemainingLabel == <<"[ - remaining: about ]">>

\* a guard that tests the upper end only
EtaShownNoZeroCheck(value, max_value) == value < max_value

\* line 280
EtaShown(value, max_value) == value > 0 /\ value < max_value

\* lines 278-287: the text set on the status label; raised when line 282
\* divides by zero
status_text(value, max_value, elapsed) ==
  IF EtaShown(value, max_value)
  THEN IF value = 0
       THEN [raised |-> TRUE, text |-> <<>>]
       ELSE LET files_remaining == max_value - value
                \* floor of (elapsed / value) * files_remaining
                whole == (elapsed * files_remaining) \div value
                mins == whole \div 60
                secs == whole % 60
            IN [raised |-> FALSE,
                text |-> StatusBase(value, max_value) \o RemainingLabel
                           \o Pad2(mins) \o <<":">> \o Pad2(secs)]
  ELSE [raised |-> FALSE, text |-> StatusBase(value, max_value)]

NoStatus == [set |-> FALSE, raised |-> FALSE, text |-> <<>>]

\* update_progress runs on one pair of signal arguments at one clock reading
UpdateProgress ==
  /\ host = "label"
  /\ ~gui.status.set
  /\ LET r == status_text(gui.value, gui.max_value, gui.elapsed)
     IN gui' = [gui EXCEPT !.status = [set |-> TRUE, raised |-> r.raised,
                                       text |-> r.text],
                           !.bar_value = gui.value,
                           !.bar_max = gui.max_value]
  /\ UNCHANGED <<batchVars, pool, host, env, cli, events>>

InitProgress ==
  /\ host = "label"
  /\ pool = NewPool("fork", FALSE, {})
  /\ env = NoHost
  /\ cli = NoHost
  /\ events = <<>>
  /\ BatchIdle
  /\ corrupt = {}
  /\ written = {}
  /\ out_state = "absent"
  /\ \E m \in 0..MaxTotal, e \in 0..MaxElapsed :
       \E v \in 0..m :
         gui = [value |-> v, max_value |-> m, elapsed |-> e,
                status |-> NoStatus, bar_value |-> 0, bar_max |-> 0]

NextProgress == UpdateProgress

SpecProgress == InitProgress /\ [][NextProgress]_vars

(***************************************************************************)
(* Claims about process_audio_files, checked under Spec.                   *)
(***************************************************************************)
\* C1: every file is submitted exactly once and, when process_audio_files
\* leaves its loop and returns, exactly one result per file has been
\* collected: N results, no task twice, no task unresolved, for every
\* interleaving, worker count and set of failing tasks.
C1_OneResultPerTask ==
  /\ NoDuplicates(collected)
  /\ processed_count = Len(collected)
  /\ \A i \in Range(collected) : fut[i] = "finished"
  /\ \A k \in 1..Len(submitted) : submitted[k] = file_list[k]
  /\ pc \in {"shutdown", "finish", "returned"} =>
       /\ submitted = file_list
       /\ Len(collected) = Len(file_list)
       /\ Range(collected) = Tasks
       /\ \A i \in Tasks : fut[i] = "finished" /\ outcome[i].kind = "value"

C1_Witness ==
  /\ pc = "returned"
  /\ Len(file_list) >= 2
  /\ max_workers >= 2
  /\ corrupt # {}
  /\ collected[1] # 1

\* C2: an exception inside one task becomes that task's failure result and
\* nothing else: the loop and the pool are never aborted, the other tasks
\* run and are collected, and every task is resolved.
C2_FailureIsolated ==
  /\ pc \notin {"raising", "raised"}
  /\ \A i \in Tasks : fut[i] = "finished" =>
       /\ outcome[i].kind = "value"
       /\ outcome[i].v =
            IF file_list[i] \in corrupt
            THEN PyStr(ErrorMessage(file_list[i]))
            ELSE PyStr(OutputPath(file_list[i], output_dir, output_format))
       /\ file_list[i] \notin corrupt =>
            <<OutputPath(file_list[i], output_dir, output_format), i>> \in written
  /\ pc = "returned" => Range(collected) = Tasks

C2_Witness ==
  /\ pc = "returned"
  /\ \E i, j \in Tasks :
       /\ file_list[i] \in corrupt
       /\ file_list[j] \notin corrupt
       /\ <<OutputPath(file_list[j], output_dir, output_format), j>> \in written
       /\ \E a, b \in 1..Len(collected) :
            a < b /\ collected[a] = i /\ collected[b] = j

\* the tasks whose processing raised, in the order their results arrived
FailedInArrivalOrder == SelectSeq(collected, LAMBDA i : file_list[i] \in corrupt)

\* C3: the value returned is None exactly when no task failed, and else the
\* messages of the failing tasks, one each and none for a task that
\* succeeded, joined in arrival order; for every input path.
C3_OutcomeIsExactlyTheFailures ==
  pc = "returned" =>
    ret.v = IF FailedInArrivalOrder = <<>> THEN PyNone
            ELSE PyStr(JoinLines([k \in 1..Len(FailedInArrivalOrder) |->
                         ErrorMessage(file_list[FailedInArrivalOrder[k]])]))

\* C5: with a callback, the k-th call is made after the count became k and
\* carries (k, N): one call per collected task, first arguments 1, 2, ..., N,
\* second argument always N, last call (N, N).
C5_ProgressCalls ==
  progress_callback # "None" =>
    /\ Len(progress_calls) = Len(collected)
    /\ \A k \in 1..Len(progress_calls) :
         progress_calls[k] = <<k, Len(file_list)>>
    /\ progress_calls # <<>> =>
         progress_calls[Len(progress_calls)][1] = processed_count
    /\ pc = "returned" => Len(progress_calls) = Len(file_list)

C5_Witness ==
  /\ pc = "returned"
  /\ progress_callback = "callable"
  /\ Len(file_list) >= 2
  /\ progress_calls[Len(progress_calls)] = <<Len(file_list), Len(file_list)>>

\* what the tasks yield when run one at a time, nothing else running
SequentialResults ==
  [i \in Tasks |->
     process_single_file(file_list[i], output_dir, output_format, corrupt).v]

\* C6: whatever the worker count and the completion order, the tasks that
\* fail and the tasks that succeed are those of the one-at-a-time run of the
\* same file list and format, and so are the messages reported.
C6_SameSetsForAnyWorkerCount ==
  pc = "returned" =>
    /\ \A i \in Tasks : outcome[i].v = SequentialResults[i]
    /\ Range(errors) =
         {SequentialResults[i].s : i \in {j \in Tasks :
                                      IsErrorResult(SequentialResults[j])}}

C6_Witness ==
  /\ pc = "returned"
  /\ max_workers >= 2
  /\ Len(file_list) >= 2
  /\ collected[1] # 1
  /\ \E i, j \in Tasks : file_list[i] \in corrupt /\ file_list[j] \notin corrupt

\* C9: the output directory exists before any task is submitted or runs,
\* and a directory that is already there is no error: the call goes on to
\* submit its tasks.
C9_DirectoryBeforeTasks ==
  /\ \A i \in Tasks : fut[i] # "none" => (mk # "none" /\ out_state = "dir")
  /\ mk = "dir" => pc \in {"submit", "loop", "shutdown", "finish", "returned"}

C9_Witness ==
  /\ mk = "dir"
  /\ file_list # <<>>
  /\ submitted = file_list
  /\ \E i \in Tasks : fut[i] = "running"

(***************************************************************************)
(* Claims about main and the files a run writes, checked under SpecCli.    *)
(***************************************************************************)
\* C4: no output file is written by two tasks of one batch, for every file
\* list get_audio_files returns and either format.
C4_NoOutputWrittenTwice ==
  \A w1, w2 \in written : w1[1] = w2[1] => w1[2] = w2[2]

\* the run reaches discovery and discovery reports an error
DiscoveryFails ==
  env.ffmpeg_ok /\ env.no_gui /\ Truthy(env.input_dir) /\ ~Discovery.ok

InputMissing == env.ffmpeg_ok /\ env.no_gui /\ ~Truthy(env.input_dir)

\* C7 as stated: exit code 1 after a failed probe, after --no-gui without
\* --input and after a discovery error; exit code 0 on success.
C7_ExitCodes ==
  cli.pc = "exited" =>
    /\ (~env.ffmpeg_ok \/ InputMissing \/ DiscoveryFails) => cli.exit = <<1>>
    /\ (pc = "returned" /\ ret.v = PyNone) => cli.exit = <<0>>

\* C7 amended: exit code 1 after a failed probe and after a discovery
\* error, exit code 2 (argparse's usage error) after --no-gui without
\* --input when the probe succeeded, exit code 0 on success.
C7_ExitCodesAmended ==
  cli.pc = "exited" =>
    /\ ~env.ffmpeg_ok => cli.exit = <<1>>
    /\ InputMissing => cli.exit = <<2>>
    /\ DiscoveryFails => cli.exit = <<1>>
    /\ (pc = "returned" /\ ret.v = PyNone) => cli.exit = <<0>>

C7_Witness ==
  /\ cli.pc = "exited"
  /\ InputMissing
  /\ cli.exit = <<2>>

\* C8: when the probe fails or discovery reports an error, no task is ever
\* submitted and the output directory is never created; the probe is
\* consulted once, before discovery and before any submission.
C8_NothingRunsAfterAbort ==
  /\ cli.probe_calls <= 1
  /\ cli.discover_calls <= 1
  /\ cli.discover_calls > 0 => (cli.probe_calls = 1 /\ env.ffmpeg_ok)
  /\ pc # "idle" => (cli.probe_calls = 1 /\ cli.discover_calls = 1)
  /\ (~env.ffmpeg_ok \/ DiscoveryFails) =>
       /\ pc = "idle"
       /\ submitted = <<>>
       /\ \A i \in Tasks : fut[i] = "none"
       /\ mk = "none"
       /\ out_state = env.out_before
       /\ written = {}

C8_Witness ==
  /\ cli.pc = "exited"
  /\ DiscoveryFails
  /\ env.isdir
  /\ env.listing # {}
  /\ cli.probe_calls = 1
  /\ out_state = "absent"

(***************************************************************************)
(* Claims about the window, checked under SpecGuiLive.                     *)
(***************************************************************************)
BatchStarted == gui.thread = "started"

BatchExecuting == pc \in {"makedirs", "submit", "loop", "shutdown", "finish"}

\* on_processing_finished is running in the window's thread with the
\* outcome process_audio_files returned
OutcomeDelivered ==
  /\ gui.pc = "box"
  /\ pc = "returned"
  /\ gui.finished_arg = ToSignalStr(ret.v)
  /\ gui.box = IF ret.v = PyNone THEN "info" ELSE "error"

ControlsEnabled ==
  gui.select_folder_button /\ gui.format_combo /\ gui.worker_spinbox

EtaField ==
  SubSeq(gui.status.text, Len(StatusBase(gui.value, gui.max_value)) + 1,
         Len(gui.status.text))

\* C11: update_progress never divides by zero; the remaining-time field is
\* in the status text exactly when 0 < completed < total; it then shows
\* (elapsed / completed) * (total - completed) seconds as minutes and
\* seconds, both floored and zero-padded to two digits (completed 1, total
\* 4, elapsed 10 s gives 00:30); with completed = 0 or completed = total the
\* text carries no estimate.
C11_RemainingTime ==
  (host = "label" /\ gui.status.set) =>
    /\ ~gui.status.raised
    /\ SubSeq(gui.status.text, 1, Len(StatusBase(gui.value, gui.max_value)))
         = StatusBase(gui.value, gui.max_value)
    /\ (EtaField # <<>>) <=> (0 < gui.value /\ gui.value < gui.max_value)
    /\ (gui.value = 0 \/ gui.value = gui.max_value) => EtaField = <<>>
    /\ EtaField # <<>> =>
         \E m \in 0..(MaxElapsed * MaxTotal) \div 60, s \in 0..59 :
           /\ (60 * m + s) * gui.value
                <= gui.elapsed * (gui.max_value - gui.value)
           /\ gui.elapsed * (gui.max_value - gui.value)
                < (60 * m + s + 1) * gui.value
           /\ EtaField = RemainingLabel \o Pad2(m) \o <<":">> \o Pad2(s)
    /\ (gui.value = 1 /\ gui.max_value = 4 /\ gui.elapsed = 10) =>
         EtaField = RemainingLabel \o <<"0", "0", ":", "3", "0">>

C11_Witness ==
  /\ host = "label"
  /\ gui.status.set
  /\ gui.value = 1
  /\ gui.max_value = 4
  /\ gui.elapsed = 10
  /\ EtaField = RemainingLabel \o <<"0", "0", ":", "3", "0">>

(***************************************************************************)
(* Claims about the pool, checked under Spec.                              *)
(***************************************************************************)
\* C12: at every moment of a call of process_audio_files the number of
\* tasks running in the pool is at most max_workers, whatever the number
\* of files; with max_workers = 1 no two tasks ever run at the same time,
\* each task starting only after the one submitted before it has finished.
C12_RunningAtMostMaxWorkers ==
  /\ Cardinality(Running) <= max_workers
  /\ max_workers = 1 =>
       \A i, j \in Tasks :
         (i < j /\ fut[j] \in {"running", "finished"}) => fut[i] = "finished"

C12_Witness ==
  /\ max_workers = 2
  /\ Len(file_list) = 3
  /\ Cardinality(Running) = 2
  /\ \E i \in Tasks : fut[i] = "pending"

(***************************************************************************)
(* Claim about output paths, checked under SpecCli.                        *)
(***************************************************************************)
TargetExtension(fmt) == IF fmt = "wav" THEN EXT_WAV ELSE EXT_MP3

\* the name with everything from its last dot on replaced by ext
ReplaceExtension(name, ext) == SubSeq(name, 1, RFind(name, ".") - 1) \o ext

\* the name with its last dot and what follows replaced by ext when a
\* character other than a dot comes before that dot, and with ext appended
\* otherwise
ReplaceOrAppendExtension(name, ext) ==
  LET dot == RFind(name, ".")
  IN IF \E j \in 1..(dot - 1) : name[j] # "."
     THEN SubSeq(name, 1, dot - 1) \o ext
     ELSE name \o ext

OutputDirIsInputPlusSuffix ==
  (host = "cli" /\ pc # "idle") =>
    /\ output_dir = env.input_dir.s \o SUFFIX
    /\ DIR_PLAIN \o SUFFIX = <<"d", "-", "N", "o", "m", "a", "l", "i", "z",
                               "e", "d">>

\* C13 as stated: the output directory is the input directory path with
\* -Nomalized appended, and every output file lies in it under the source
\* file's base name with its extension replaced by the extension of the
\* target format, for every file name discovery accepts.
C13_OutputPaths ==
  /\ OutputDirIsInputPlusSuffix
  /\ host = "cli" =>
       \A w \in written :
         w[1] = output_dir \o <<"/">>
                  \o ReplaceExtension(Basename(file_list[w[2]]),
                                      TargetExtension(output_format))

\* C13, amended: the same, except that a base name with nothing but dots
\* before its last dot (such as .wav, which discovery accepts) keeps its
\* whole name and gets the target extension appended: .wav becomes
\* .wav.wav or .wav.mp3.
C13_OutputPathsAmended ==
  /\ OutputDirIsInputPlusSuffix
  /\ host = "cli" =>
       \A w \in written :
         w[1] = output_dir \o <<"/">>
                  \o ReplaceOrAppendExtension(Basename(file_list[w[2]]),
                                              TargetExtension(output_format))

C13_Witness ==
  /\ host = "cli"
  /\ pc = "returned"
  /\ output_format = "mp3"
  /\ output_dir = DIR_PLAIN \o SUFFIX
  /\ \E w \in written :
       /\ file_list[w[2]] = <<"d", "/">> \o NAME_A_WAV
       /\ w[1] = DIR_PLAIN \o SUFFIX \o <<"/", "a", ".", "m", "p", "3">>
  /\ \E w \in written :
       /\ file_list[w[2]] = <<"d", "/">> \o NAME_HIDDEN
       /\ w[1] = DIR_PLAIN \o SUFFIX
                  \o <<"/", ".", "w", "a", "v", ".", "m", "p", "3">>

OutcomeSurfaced ==
  \/ ret.kind = "returned"
  \/ \E k \in 1..Len(events) : events[k].sig = "finished"
  \/ host = "gui" /\ gui.pc = "box"
  \/ host = "cli" /\ cli.pc = "exited" /\ pc # "idle"

\* C15: failures are only accumulated in errors while the batch runs, and
\* the outcome reaches the caller (the value process_audio_files returns,
\* the finished signal of the window, the printout of the command line)
\* only after every task has been collected: then no task is unresolved
\* and errors holds the failure of every failed task.
C15_FailuresSurfaceAfterTheBatch ==
  /\ pc \in {"makedirs", "submit", "loop", "shutdown", "finish"} =>
       (ret = NotReturned /\ ~OutcomeSurfaced)
  /\ OutcomeSurfaced =>
       /\ pc = "returned"
       /\ AllFinished
       /\ Range(collected) = Tasks
       /\ Len(collected) = Len(file_list)
       /\ ret.v = BatchOutcome(errors)
       /\ \A i \in Tasks :
            file_list[i] \in corrupt =>
              \E k \in 1..Len(errors) : errors[k] = outcome[i].v.s

C15_Witness ==
  /\ host = "gui"
  /\ gui.pc = "box"
  /\ gui.box = "error"
  /\ Len(file_list) = 2
  /\ Len(errors) = 1
  /\ collected = <<2, 1>>

(***************************************************************************)
(* Claim about the order of submission and collection, checked under Spec. *)
(***************************************************************************)
\* the position of task i in the order in which the tasks completed
CompletionIndex(i) ==
  CHOOSE k \in 1..Len(pool.completion) : pool.completion[k] = i

AllSubmittedBeforeCollecting ==
  /\ pc \in {"loop", "shutdown", "finish", "returned"} => submitted = file_list
  /\ collected # <<>> => submitted = file_list
  /\ pc \in {"makedirs", "submit"} => collected = <<>>

\* C16 as stated: every task is submitted before any result is collected,
\* and the results are collected in the order in which the tasks completed.
C16_CollectedInCompletionOrder ==
  /\ AllSubmittedBeforeCollecting
  /\ \A p, q \in 1..Len(collected) :
       p < q => CompletionIndex(collected[p]) < CompletionIndex(collected[q])

\* C16, amended: every task is submitted before any result is collected;
\* the tasks that had already completed when collection began are
\* collected first, in no particular order, and every other task is
\* collected in the order of completion, after all tasks that completed
\* before it.
C16_LateResultsInCompletionOrder ==
  /\ AllSubmittedBeforeCollecting
  /\ Range(collected) \subseteq Range(pool.completion)
  /\ \A p, q \in 1..Len(collected) :
       (p < q /\ collected[q] \notin pool.snap) =>
         CompletionIndex(collected[p]) < CompletionIndex(collected[q])
  /\ \A p, q \in 1..Len(collected) :
       (p < q /\ collected[q] \in pool.snap) => collected[p] \in pool.snap

C16_Witness ==
  /\ pc = "returned"
  /\ Len(file_list) = 3
  /\ pool.completion = <<2, 3, 1>>
  /\ pool.snap = {2, 3}
  /\ collected = <<3, 2, 1>>

\* some task of the call never completes
SomeTaskHangs == \E i \in Tasks : file_list[i] \in pool.hung

\* C17: no task is ever timed out or cancelled.  When every task
\* completes, with success or failure, and the workers and the calling
\* thread are scheduled fairly, process_audio_files eventually returns its
\* outcome; when some task never completes, the collection loop never
\* ends, the with block never finishes shutting the pool down and nothing
\* is returned.
C17_ReturnsIffEveryTaskCompletes ==
  /\ (~SomeTaskHangs) ~> (pc = "returned" /\ ret.kind = "returned")
  /\ [](SomeTaskHangs =>
          /\ pc \in {"makedirs", "submit", "loop"}
          /\ ret = NotReturned
          /\ \A i \in Tasks :
               file_list[i] \in pool.hung => fut[i] # "finished")

C17_Witness ==
  /\ pc = "loop"
  /\ Len(file_list) = 3
  /\ pool.hung = {file_list[2]}
  /\ fut[2] = "running"
  /\ Range(collected) = {1, 3}
  /\ ret = NotReturned

(***************************************************************************)
(* Claims about the controls of the window, checked under SpecGui.         *)
(***************************************************************************)
\* from start_processing until reset_ui at the end of on_processing_finished
BatchInFlight == gui.thread # "none"

AllControlsDisabled ==
  /\ ~gui.select_folder_button
  /\ ~gui.format_combo
  /\ ~gui.worker_spinbox
  /\ ~gui.process_button

\* the folder selection that leads to g succeeded: g holds a directory and
\* the files discovery finds in it
SelectionSucceeded(g) ==
  /\ g.input_dir # <<>>
  /\ LET r == get_audio_files(g.input_dir, TRUE,
                              ListingSeq(env.listing[g.input_dir]))
     IN r.ok /\ g.files_to_process = r.files

\* C18: at most one batch is in flight in the window.  From
\* start_processing until on_processing_finished has run, the folder
\* button, the format selector, the worker spin box and the process button
\* are all disabled; no batch starts while one is in flight and neither the
\* options nor the arguments of the running batch change; when a batch has
\* finished the process button is disabled, and it becomes enabled only by
\* a folder selection that succeeds.
C18_OneBatchInFlight ==
  /\ [](BatchInFlight => AllControlsDisabled)
  /\ [](pc # "idle" =>
          /\ BatchInFlight
          /\ file_list = gui.worker.files
          /\ output_dir = gui.worker.output_dir
          /\ output_format = gui.worker.output_format
          /\ max_workers = gui.worker.max_workers)
  /\ [][(gui'.thread = "started" /\ gui.thread # "started") =>
          (gui.thread = "none" /\ pc = "idle")]_vars
  /\ [][(BatchInFlight /\ gui'.thread # "none") =>
          /\ gui'.format = gui.format
          /\ gui'.workers = gui.workers
          /\ gui'.input_dir = gui.input_dir
          /\ gui'.files_to_process = gui.files_to_process
          /\ gui'.worker = gui.worker]_vars
  /\ [][(BatchInFlight /\ gui'.thread = "none") => ~gui'.process_button]_vars
  /\ [][(~gui.process_button /\ gui'.process_button) =>
          (~BatchInFlight /\ SelectionSucceeded(gui'))]_vars

C18_Witness ==
  /\ env.disk[DIR_PLAIN \o SUFFIX] = "dir"
  /\ gui.thread = "running"
  /\ pc = "loop"
  /\ Len(file_list) = 2
  /\ AllControlsDisabled

\* C19: whatever folder selections came before (successful, failing
\* discovery, cancelled dialog), whenever the process button is enabled
\* the stored input directory is non-empty and the stored file list is
\* what discovery finds in it, and every batch in flight writes to that
\* directory's path with -Nomalized appended.
C19_EnabledButtonHasItsDirectory ==
  /\ gui.process_button => SelectionSucceeded(gui)
  /\ BatchInFlight =>
       \E d \in DialogChoices \ {<<>>} :
         /\ gui.worker.output_dir = d \o SUFFIX
         /\ gui.worker.files
              = get_audio_files(d, TRUE, ListingSeq(env.listing[d])).files

====
